---------------------------- MODULE Spec2Model ----------------------------
(***************************************************************************)
(* A model of the Philips Hue client library (src/hue.go) and of its       *)
(* command line tool (src/cmd/hue/hue.go).                                 *)
(*                                                                         *)
(* The hub and the network are the environment: every call draws what the  *)
(* transport does (the send fails, or a response with a status, a body     *)
(* that can or cannot be read, and the body's JSON) from bounded sets.     *)
(* encoding/json is modelled by what it does on a small universe of JSON   *)
(* values and Go type descriptors (Decode, Unmarshal, Marshal).            *)
(***************************************************************************)
EXTENDS Integers, Sequences, FiniteSets, TLC

(***************************************************************************)
(* Bounds of the model.                                                    *)
(***************************************************************************)
\* Longest JSON array the hub answers with.
MaxEntries == 2
\* Number of lights the hub's lights listing names.
MaxLights == 2

(***************************************************************************)
(* JSON values (the bytes of a body, by what they parse to).               *)
(***************************************************************************)
JInvalid == [k |-> "invalid"]       \* bytes that are not JSON at all
JNull == [k |-> "null"]
JNum(n) == [k |-> "num", n |-> n]
JStr(s) == [k |-> "str", s |-> s]
JBool(b) == [k |-> "bool", b |-> b]
JArr(a) == [k |-> "arr", a |-> a]
JObj(o) == [k |-> "obj", o |-> o]

(***************************************************************************)
(* Go type descriptors. A struct maps each Go field name to the JSON key   *)
(* encoding/json matches it with (the tag, or the field name, matched      *)
(* case-insensitively: the hub sends lower case) and the field's type.     *)
(***************************************************************************)
TInt == [t |-> "int"]
TFloat == [t |-> "float"]
TString == [t |-> "string"]
TBool == [t |-> "bool"]
TIface == [t |-> "iface"]
TSlice(e) == [t |-> "slice", e |-> e]
TMap(e) == [t |-> "map", e |-> e]
TStruct(f) == [t |-> "struct", f |-> f]
Fld(key, type) == [key |-> key, t |-> type]

HueErrorT ==
  TStruct([Type |-> Fld("type", TInt),
           Address |-> Fld("address", TString),
           Description |-> Fld("description", TString)])

HueAggregateErrorT == TSlice(TStruct([Error |-> Fld("error", HueErrorT)]))

LightStateT ==
  TStruct([On |-> Fld("on", TBool),
           Hue |-> Fld("hue", TInt),
           Sat |-> Fld("sat", TInt),
           Bri |-> Fld("bri", TInt),
           Alert |-> Fld("alert", TString),
           ColorMode |-> Fld("colormode", TString),
           CT |-> Fld("ct", TInt),
           Effect |-> Fld("effect", TString),
           Reachable |-> Fld("reachable", TBool),
           XY |-> Fld("xy", TSlice(TFloat))])

LightT ==
  TStruct([State |-> Fld("state", LightStateT),
           Type |-> Fld("type", TString),
           Name |-> Fld("name", TString),
           ModelId |-> Fld("modelid", TString),
           SWVersion |-> Fld("swversion", TString),
           PointSymbol |-> Fld("pointsymbol", TMap(TString))])

GetUserResponseT ==
  TStruct([Lights |-> Fld("lights", TMap(LightT)),
           Groups |-> Fld("groups", TMap(TIface)),
           Config |-> Fld("config",
             TStruct([Gateway |-> Fld("gateway", TString),
                      LocalTime |-> Fld("localtime", TString),
                      ProxyPort |-> Fld("proxyport", TInt),
                      Whitelist |-> Fld("whitelist",
                        TMap(TStruct([LastUseDate |-> Fld("last use date", TString),
                                      CreateDate |-> Fld("create date", TString),
                                      Name |-> Fld("name", TString)]))),
                      SWUpdate |-> Fld("swupdate",
                        TStruct([Notify |-> Fld("notify", TBool),
                                 UpdateState |-> Fld("updatestate", TInt),
                                 Url |-> Fld("url", TString),
                                 Text |-> Fld("text", TString)])),
                      LinkButton |-> Fld("linkbutton", TBool),
                      PortalServices |-> Fld("portalservices", TBool),
                      PortalConnection |-> Fld("portalconnection", TString),
                      ProxyAddress |-> Fld("proxyaddress", TString),
                      UTC |-> Fld("utc", TString),
                      SWVersion |-> Fld("swversion", TString),
                      ApiVersion |-> Fld("apiversion", TString),
                      Netmask |-> Fld("netmask", TString),
                      Timezone |-> Fld("timezone", TString),
                      PortalState |-> Fld("portalstate",
                        TStruct([Incoming |-> Fld("incoming", TBool),
                                 Outgoing |-> Fld("outgoing", TBool),
                                 SignedOn |-> Fld("signedon", TBool),
                                 Connection |-> Fld("connection", TString)])),
                      Name |-> Fld("name", TString),
                      Mac |-> Fld("mac", TString)])),
           Schedules |-> Fld("schedules", TMap(TIface)),
           Scenes |-> Fld("scenes",
             TMap(TStruct([Name |-> Fld("name", TString),
                           Active |-> Fld("active", TBool),
                           Lights |-> Fld("lights", TSlice(TString))])))])

postUserResponseT ==
  TSlice(TStruct([Success |-> Fld("success",
                    TStruct([Username |-> Fld("username", TString)]))]))

GetLightsResponseT == TMap(TStruct([Name |-> Fld("name", TString)]))

GetLightResponseT == LightT

putLightResponseT == TSlice(TStruct([Success |-> Fld("success", TMap(TIface))]))

(***************************************************************************)
(* encoding/json, decoding. ZeroValue is Go's zero value of a type. Decode *)
(* stores JSON value v into a zero value of type T the way Unmarshal does: *)
(* a JSON null leaves the value as it is; a JSON value of the wrong kind   *)
(* is skipped and remembered as an error while decoding goes on; object    *)
(* keys no field matches are ignored.                                      *)
(***************************************************************************)
RECURSIVE ZeroValue(_)
ZeroValue(T) ==
  CASE T.t = "int" -> 0
    [] T.t = "float" -> 0
    [] T.t = "string" -> ""
    [] T.t = "bool" -> FALSE
    [] T.t = "iface" -> JNull
    [] T.t = "slice" -> << >>
    [] T.t = "map" -> << >>
    [] T.t = "struct" -> [f \in DOMAIN T.f |-> ZeroValue(T.f[f].t)]

RECURSIVE Decode(_, _)
Decode(v, T) ==
  LET zero == ZeroValue(T)
      mismatch == [err |-> TRUE, val |-> zero]
  IN
  IF v.k = "null" THEN [err |-> FALSE, val |-> zero]
  ELSE CASE T.t = "iface" -> [err |-> FALSE, val |-> v]
    [] T.t \in {"int", "float"} ->
         IF v.k = "num" THEN [err |-> FALSE, val |-> v.n] ELSE mismatch
    [] T.t = "string" ->
         IF v.k = "str" THEN [err |-> FALSE, val |-> v.s] ELSE mismatch
    [] T.t = "bool" ->
         IF v.k = "bool" THEN [err |-> FALSE, val |-> v.b] ELSE mismatch
    [] T.t = "slice" ->
         IF v.k = "arr"
         THEN [err |-> \E i \in DOMAIN v.a : Decode(v.a[i], T.e).err,
               val |-> [i \in DOMAIN v.a |-> Decode(v.a[i], T.e).val]]
         ELSE mismatch
    [] T.t = "map" ->
         IF v.k = "obj"
         THEN [err |-> \E key \in DOMAIN v.o : Decode(v.o[key], T.e).err,
               val |-> [key \in DOMAIN v.o |-> Decode(v.o[key], T.e).val]]
         ELSE mismatch
    [] T.t = "struct" ->
         IF v.k = "obj"
         THEN LET present == {f \in DOMAIN T.f : T.f[f].key \in DOMAIN v.o}
              IN [err |-> \E f \in present : Decode(v.o[T.f[f].key], T.f[f].t).err,
                  val |-> [f \in DOMAIN T.f |->
                             IF f \in present
                             THEN Decode(v.o[T.f[f].key], T.f[f].t).val
                             ELSE ZeroValue(T.f[f].t)]]
         ELSE mismatch

\* json.Unmarshal(body, &x) for a zero x of type T: checks the bytes are JSON
\* before it stores anything. err is "nil", "syntax" or "type".
Decoded(d) == [err |-> IF d.err THEN "type" ELSE "nil", val |-> d.val]

Unmarshal(body, T) ==
  IF body.k = "invalid"
  THEN [err |-> "syntax", val |-> ZeroValue(T)]
  ELSE Decoded(Decode(body, T))


(***************************************************************************)
(* Errors. A Go string is a sequence of pieces, so that concatenation is   *)
(* \o and the order of the pieces can be told.                             *)
(***************************************************************************)
NilErr == [kind |-> "nil"]
\* fmt.Errorf("Http request failed: Status %d", resp.StatusCode)
StatusErr(code) ==
  [kind |-> "errorString", text |-> <<"Http request failed: Status ", ToString(code)>>]
\* what ioutil.ReadAll returns when the connection breaks
ReadErr == [kind |-> "readError"]
\* what http.Get, http.Post and Client.Do return when no response arrives
UrlErr == [kind |-> "urlError"]
\* *json.SyntaxError or *json.UnmarshalTypeError
JsonErr(which) == [kind |-> "jsonError", which |-> which]
\* &(hueErr[0].Error)
HueErrorPtr(e) ==
  [kind |-> "HueError", Type |-> e.Type, Address |-> e.Address,
   Description |-> e.Description]
\* &hueErr
HueAggregateErrorPtr(errs) == [kind |-> "HueAggregateError", errs |-> errs]

\* func (err *HueError) Error() string
HueErrorError(e) ==
  <<"Hue Error ", ToString(e.Type), ": ", e.Address, " ", e.Description>>

\* The loop of func (errs *HueAggregateError) Error(): desc after the first n
\* entries.
RECURSIVE AggregateDesc(_, _)
\* The loop with the new entry put in front of desc instead of after it.
AggregateDescReversed(errs, n) ==
  IF n = 0 THEN << >>
  ELSE HueErrorError(errs[n].Error) \o <<"\n">> \o AggregateDesc(errs, n - 1)

AggregateDesc(errs, n) ==
  IF n = 0 THEN << >>
  ELSE AggregateDesc(errs, n - 1) \o HueErrorError(errs[n].Error) \o <<"\n">>

\* func (errs *HueAggregateError) Error() string
HueAggregateErrorError(errs) == AggregateDesc(errs, Len(errs))

(***************************************************************************)
(* processJsonResponse. resp is what the transport handed over:            *)
(* [StatusCode, readOk, body]; T is the type jsonBody points to. The       *)
(* result tells what was returned and what the call did on the way:        *)
(*   err       the error returned (NilErr: nil)                            *)
(*   target    the caller's *jsonBody: written, and its value              *)
(*   closes    how often resp.Body.Close() ran                             *)
(*   bodyRead  ioutil.ReadAll was called                                   *)
(*   errParse  json.Unmarshal(body, &hueErr) was called                    *)
(*   okParse   json.Unmarshal(body, &jsonBody) was called                  *)
(*   log       what log.Printf printed                                     *)
(***************************************************************************)
Untouched(T) == [written |-> FALSE, val |-> ZeroValue(T)]

\* json.Unmarshal(body, &jsonBody), jsonBody an interface holding the caller's
\* non-nil pointer: the decoder follows the pointer, except for a JSON null,
\* which it stores in the local interface variable.
Stored(body, T, u) ==
  [err |-> u.err,
   target |-> IF body.k \in {"invalid", "null"} THEN Untouched(T)
              ELSE [written |-> TRUE, val |-> u.val]]

UnmarshalInto(body, T) == Stored(body, T, Unmarshal(body, T))

\* A status check that lets everything but a server error through.
StatusFailsOnServerError(resp) == resp.StatusCode >= 500

\* if resp.StatusCode != 200
StatusFails(resp) == resp.StatusCode # 200

\* The check without its last clause: any array that decodes is an error.
ConfirmedByShape(hueErr) == hueErr.err = "nil" /\ Len(hueErr.val) > 0

\* The check with the aggregate forgotten: only a single entry is an error.
ConfirmedSingle(hueErr) ==
  hueErr.err = "nil" /\ Len(hueErr.val) = 1 /\ hueErr.val[1].Error.Type # 0

\* The check looking at every entry instead of the first.
ConfirmedByAnyEntry(hueErr) ==
  hueErr.err = "nil" /\ \E i \in DOMAIN hueErr.val : hueErr.val[i].Error.Type # 0

\* err == nil, len(hueErr) > 0 and hueErr[0].Error.Type != 0: the response
\* is an error.
Confirmed(hueErr) ==
  hueErr.err = "nil" /\ Len(hueErr.val) > 0 /\ hueErr.val[1].Error.Type # 0

\* The result of a call that has done nothing yet.
Fresh(T) ==
  [err |-> NilErr, target |-> Untouched(T), bodyRead |-> FALSE,
   errParse |-> FALSE, okParse |-> FALSE, log |-> << >>, closes |-> 0]

\* Lines 93 to 98: the result of json.Unmarshal(body, &jsonBody) decides.
SuccessParse(read, u) ==
  IF u.err # "nil"
  THEN [read EXCEPT !.okParse = TRUE, !.target = u.target, !.err = JsonErr(u.err),
                    !.log = <<<<"Failed to parse response body: ">>>>]
  ELSE [read EXCEPT !.okParse = TRUE, !.target = u.target]

\* Lines 79 to 98: hueErr is the result of json.Unmarshal(body, &hueErr).
Classify(resp, T, read, hueErr) ==
  IF Confirmed(hueErr)
  THEN IF Len(hueErr.val) = 1
       THEN [read EXCEPT !.err = HueErrorPtr(hueErr.val[1].Error),
               !.log = <<<<"Request failed: ">> \o HueErrorError(hueErr.val[1].Error)>>]
       ELSE [read EXCEPT !.err = HueAggregateErrorPtr(hueErr.val),
               !.log = <<<<"Request failed: ">> \o HueAggregateErrorError(hueErr.val)>>]
  ELSE SuccessParse(read, UnmarshalInto(resp.body, T))

\* The function's body, before the deferred resp.Body.Close().
ProcessBody(resp, T) ==
  IF StatusFails(resp)
  THEN [Fresh(T) EXCEPT !.err = StatusErr(resp.StatusCode),
                        !.log = <<StatusErr(resp.StatusCode).text>>]
  ELSE IF ~resp.readOk
  THEN [Fresh(T) EXCEPT !.err = ReadErr, !.bodyRead = TRUE,
                        !.log = <<<<"Failed to read response body: ">>>>]
  ELSE Classify(resp, T, [Fresh(T) EXCEPT !.bodyRead = TRUE, !.errParse = TRUE],
                Unmarshal(resp.body, HueAggregateErrorT))

\* The close at the function's end instead of deferred: the early returns
\* leak the body.
CloseAtEnd(b) == [b EXCEPT !.closes = IF b.err.kind = "nil" THEN 1 ELSE 0]

\* defer resp.Body.Close(): runs once, however the function returns.
DeferredClose(b) == [b EXCEPT !.closes = @ + 1]

processJsonResponse(resp, T) == DeferredClose(ProcessBody(resp, T))

(***************************************************************************)
(* encoding/json, encoding. A pointer field is nil or points to a value.   *)
(***************************************************************************)
PNil == [set |-> FALSE]
PSet(v) == [set |-> TRUE, v |-> v]

\* json.Marshal of a postUserRequest: both fields always.
MarshalPostUserRequest(req) ==
  JObj([username |-> JStr(req.Username), devicetype |-> JStr(req.DeviceType)])

\* omitempty read as "omit the zero value pointed to" instead of "omit the nil
\* pointer".
MarshalPutLightRequestOmitZero(req) ==
  LET ptr == [on |-> req.On, hue |-> req.Hue, sat |-> req.Sat, bri |-> req.Bri]
      kept(key) == ptr[key].set /\ (IF key = "on" THEN ptr[key].v ELSE ptr[key].v # 0)
  IN JObj([key \in {x \in DOMAIN ptr : kept(x)} |->
             IF key = "on" THEN JBool(ptr[key].v) ELSE JNum(ptr[key].v)])

\* json.Marshal of a PutLightRequest: every field is a pointer tagged
\* omitempty, which leaves out exactly the nil pointers.
MarshalPutLightRequest(req) ==
  LET ptr == [on |-> req.On, hue |-> req.Hue, sat |-> req.Sat, bri |-> req.Bri]
  IN JObj([key \in {x \in DOMAIN ptr : ptr[x].set} |->
             IF key = "on" THEN JBool(ptr[key].v) ELSE JNum(ptr[key].v)])

\* json.Marshal(reqBody): none of the request types can fail to encode.
Marshal(reqBody) ==
  [err |-> FALSE,
   data |-> IF reqBody.type = "postUserRequest"
            THEN MarshalPostUserRequest(reqBody)
            ELSE MarshalPutLightRequest(reqBody)]

(***************************************************************************)
(* net/http. A URL is its host and its path; url.Parse rejects a host with *)
(* or a path with an invalid percent escape. net is what the network does  *)
(* with a request that was sent: [sendOk, resp].                           *)
(***************************************************************************)
GoodHost == "192.168.1.3"
BadHost == "192.168.1.%zz"
BadEscape == "%zz"
Url(hue, path) == [host |-> hue.IpAddress, path |-> path]
UrlParses(url) == url.host # BadHost /\ \A i \in DOMAIN url.path : url.path[i] # BadEscape

NoBody == [k |-> "none"]
Request(method, url, contentType, body) ==
  [method |-> method, url |-> url, contentType |-> contentType, body |-> body]

\* http.Get, http.Post, Client.Do: an error and no response, or a response.
Transport(url, net) == UrlParses(url) /\ net.sendOk

(***************************************************************************)
(* get, post, put. The result adds to processJsonResponse's:               *)
(*   returned  the function returned (FALSE: it panicked)                  *)
(*   gotResp   the transport handed a response over                        *)
(*   sent      the requests given to the transport                         *)
(***************************************************************************)
NoResponse(T, err, sent, log) ==
  [returned |-> TRUE, gotResp |-> FALSE, sent |-> sent, err |-> err,
   target |-> Untouched(T), bodyRead |-> FALSE, errParse |-> FALSE,
   okParse |-> FALSE, closes |-> 0, log |-> log]

WithResponse(p, sent) ==
  [returned |-> TRUE, gotResp |-> TRUE, sent |-> sent, err |-> p.err,
   target |-> p.target, bodyRead |-> p.bodyRead, errParse |-> p.errParse,
   okParse |-> p.okParse, closes |-> p.closes, log |-> p.log]

get(hue, path, T, net) ==
  LET url == Url(hue, path)
      sent == IF UrlParses(url) THEN <<Request("GET", url, "", NoBody)>> ELSE << >>
  IN IF ~Transport(url, net)
     THEN NoResponse(T, UrlErr, sent, <<<<"Http GET failed: ">>>>)
     ELSE WithResponse(processJsonResponse(net.resp, T), sent)

post(hue, path, reqBody, T, net) ==
  LET url == Url(hue, path)
      m == Marshal(reqBody)
      sent == IF UrlParses(url)
              THEN <<Request("POST", url, "application/json", m.data)>> ELSE << >>
  IN IF m.err
     THEN NoResponse(T, JsonErr("marshal"), << >>,
                     <<<<"Unable to create JSON for request: ">>>>)
     ELSE IF ~Transport(url, net)
     THEN NoResponse(T, UrlErr, sent, <<<<"Http POST failed: ">>>>)
     ELSE WithResponse(processJsonResponse(net.resp, T), sent)

\* When http.NewRequest fails put logs the error and goes on: req is nil and
\* req.Header.Add dereferences it, which panics.
put(hue, path, reqBody, T, net) ==
  LET url == Url(hue, path)
      m == Marshal(reqBody)
      sent == <<Request("PUT", url, "application/json", m.data)>>
  IN IF m.err
     THEN NoResponse(T, JsonErr("marshal"), << >>,
                     <<<<"Unable to create JSON for request: ">>>>)
     ELSE IF ~UrlParses(url)
     THEN [NoResponse(T, NilErr, << >>, <<<<"Creating PUT request failed: ">>>>)
             EXCEPT !.returned = FALSE]
     ELSE IF ~Transport(url, net)
     THEN NoResponse(T, UrlErr, sent, <<<<"Http PUT failed: ">>>>)
     ELSE WithResponse(processJsonResponse(net.resp, T), sent)

(***************************************************************************)
(* The exported operations. Each logs and returns the error of the verb    *)
(* under it; PostUser and PutLight decode into a local variable.           *)
(***************************************************************************)
Logged(out, line) ==
  IF out.returned /\ out.err.kind # "nil"
  THEN [out EXCEPT !.log = @ \o <<<<line>>>>] ELSE out

GetUser(hue, net) ==
  Logged(get(hue, <<"/api/", hue.UserName>>, GetUserResponseT, net),
         "Failed to fetch user info: ")

PostUser(hue, net) ==
  Logged(post(hue, <<"/api">>,
              [type |-> "postUserRequest", Username |-> hue.UserName,
               DeviceType |-> hue.DeviceType],
              postUserResponseT, net),
         "Failed to register user: ")

GetLights(hue, net) ==
  Logged(get(hue, <<"/api/", hue.UserName, "/lights">>, GetLightsResponseT, net),
         "Failed to fetch lights: ")

GetLight(hue, id, net) ==
  Logged(get(hue, <<"/api/", hue.UserName, "/lights/", id>>, GetLightResponseT, net),
         "Failed to fetch light: ")

PutLight(hue, id, state, net) ==
  put(hue, <<"/api/", hue.UserName, "/lights/", id, "/state">>, state,
      putLightResponseT, net)


(***************************************************************************)
(* The environment: what the hub answers.                                  *)
(***************************************************************************)
ErrorTypes == {0, 7, 101}

\* {"error":{"type":t,"address":...,"description":...}}
ErrorAddress(t) ==
  IF t = 101 THEN "/" ELSE IF t = 7 THEN "/lights/1/state/bri" ELSE "/lights/1"
ErrorDescription(t) ==
  IF t = 101 THEN "link button not pressed"
  ELSE IF t = 7 THEN "invalid value for parameter" ELSE "no error"
ErrorEntry(t) ==
  JObj([error |-> JObj([type |-> JNum(t),
                        address |-> JStr(ErrorAddress(t)),
                        description |-> JStr(ErrorDescription(t))])])

\* {"success":{"/lights/1/state/on":true}}
AckEntry == JObj([success |-> JObj([x \in {"/lights/1/state/on"} |-> JBool(TRUE)])])

\* {"success":{"username":"HueGoRaspberryPiUser"}}
RegisteredEntry == JObj([success |-> JObj([username |-> JStr("HueGoRaspberryPiUser")])])

\* {"error":{"type":"101"}}: the type is a string, not a number
IllTypedEntry == JObj([error |-> JObj([type |-> JStr("101")])])

Entries ==
  {ErrorEntry(t) : t \in ErrorTypes} \cup {AckEntry, RegisteredEntry, IllTypedEntry}

ArrayBodies ==
  {JArr(a) : a \in UNION {[1..n -> Entries] : n \in 0..MaxEntries}}

LightIds == {ToString(i) : i \in 1..MaxLights}

\* {"1":{"name":"Kitchen"},"2":{"name":"Kitchen"}}
LightsListing == JObj([id \in LightIds |-> JObj([name |-> JStr("Kitchen")])])

\* {"state":{"on":true,"bri":200,"xy":[1,2]},"name":"Kitchen"}
LightBody ==
  JObj([state |-> JObj([on |-> JBool(TRUE), bri |-> JNum(200),
                        xy |-> JArr(<<JNum(1), JNum(2)>>)]),
        name |-> JStr("Kitchen")])

\* {"lights":{"1":{...}},"config":{"name":"hub","linkbutton":false}}
UserBody ==
  JObj([lights |-> JObj([id \in {"1"} |-> LightBody]),
        config |-> JObj([name |-> JStr("hub"), linkbutton |-> JBool(FALSE)])])

Bodies == ArrayBodies \cup {LightsListing, LightBody, UserBody, JNull, JInvalid}

Responses == [StatusCode : {200, 404}, readOk : BOOLEAN, body : Bodies]

NoSend == [sendOk |-> FALSE, resp |-> [StatusCode |-> 0, readOk |-> FALSE, body |-> JInvalid]]

Nets == {NoSend} \cup [sendOk : {TRUE}, resp : Responses]

\* What the hub answers the command line tool with: fewer kinds of entries,
\* and one body for the responses whose body is never parsed.
MainEntries == {ErrorEntry(101), ErrorEntry(7), AckEntry}

MainBodies ==
  {JArr(a) : a \in UNION {[1..n -> MainEntries] : n \in 0..MaxEntries}}
    \cup {LightsListing, JInvalid}

MainNets ==
  {NoSend}
    \cup [sendOk : {TRUE}, resp : [StatusCode : {200}, readOk : {TRUE}, body : MainBodies]]
    \cup [sendOk : {TRUE},
          resp : {[StatusCode |-> 404, readOk |-> TRUE, body |-> JArr(<<ErrorEntry(101)>>)],
                  [StatusCode |-> 200, readOk |-> FALSE, body |-> JArr(<<ErrorEntry(101)>>)]}]

Hues ==
  [IpAddress : {GoodHost, BadHost}, UserName : {"HueGoRaspberryPiUser"},
   DeviceType : {"HueGoRaspberryPi"}]

PutLightRequests ==
  [type : {"PutLightRequest"},
   On : {PNil, PSet(TRUE), PSet(FALSE)},
   Hue : {PNil, PSet(0), PSet(200)},
   Sat : {PNil, PSet(0)},
   Bri : {PNil, PSet(200)}]

\* The light identifiers a program calls GetLight and PutLight with.
CallLightIds == {"1", BadEscape}

(***************************************************************************)
(* State.                                                                  *)
(*   call    a call of an exported operation: its arguments, what the      *)
(*           network did, and the result. main keeps nothing of a call     *)
(*           that succeeded (but the names of the lights listing), and the *)
(*           model forgets the exchange with it: under main, call is the   *)
(*           call that failed                                              *)
(*   pc      "lib", then "called", when a program calls the library        *)
(*           directly; else where the command line tool's main is          *)
(*   flags   main's command line flags                                     *)
(*   lights  main's lights slice                                           *)
(*   idx     main's position in its loop over lights                       *)
(*   msg     what main's log.Fatalf printed                                *)
(*   trace   the operations main has called, in order                      *)
(***************************************************************************)
VARIABLES call, pc, flags, lights, idx, msg, trace

vars == <<call, pc, flags, lights, idx, msg, trace>>

NoCall == [op |-> "none"]
NoRequest == [type |-> "none"]
Call(op, hue, id, state, net, out) ==
  [op |-> op, hue |-> hue, id |-> id, state |-> state, net |-> net, out |-> out]

FlagValues == {-1, 0, 200}

Flags ==
  [ip : {GoodHost, BadHost}, register : BOOLEAN, dumpUserInfo : BOOLEAN,
   on : BOOLEAN, hue : FlagValues, sat : {-1, 0}, bri : {-1, 200},
   light : {"", "1"}]

DefaultFlags ==
  [ip |-> GoodHost, register |-> FALSE, dumpUserInfo |-> FALSE, on |-> TRUE,
   hue |-> -1, sat |-> -1, bri |-> -1, light |-> ""]

Init ==
  /\ call = NoCall
  /\ lights = << >>
  /\ idx = 1
  /\ msg = ""
  /\ trace = << >>
  /\ \/ pc = "lib" /\ flags = DefaultFlags
     \/ pc = "register" /\ flags \in Flags

(***************************************************************************)
(* A program calling the library. A Hue holds no state that a call         *)
(* changes, so every call starts where the first one does: one call is     *)
(* modelled.                                                               *)
(***************************************************************************)
LibVars == <<flags, lights, idx, msg, trace>>

CallGetUser ==
  /\ pc = "lib"
  /\ pc' = "called"
  /\ \E hue \in Hues, net \in Nets :
       call' = Call("GetUser", hue, "", NoRequest, net, GetUser(hue, net))
  /\ UNCHANGED LibVars

CallPostUser ==
  /\ pc = "lib"
  /\ pc' = "called"
  /\ \E hue \in Hues, net \in Nets :
       call' = Call("PostUser", hue, "", NoRequest, net, PostUser(hue, net))
  /\ UNCHANGED LibVars

CallGetLights ==
  /\ pc = "lib"
  /\ pc' = "called"
  /\ \E hue \in Hues, net \in Nets :
       call' = Call("GetLights", hue, "", NoRequest, net, GetLights(hue, net))
  /\ UNCHANGED LibVars

CallGetLight ==
  /\ pc = "lib"
  /\ pc' = "called"
  /\ \E hue \in Hues, net \in Nets, id \in CallLightIds :
       call' = Call("GetLight", hue, id, NoRequest, net, GetLight(hue, id, net))
  /\ UNCHANGED LibVars

CallPutLight ==
  /\ pc = "lib"
  /\ pc' = "called"
  /\ \E hue \in Hues, net \in Nets, id \in CallLightIds, state \in PutLightRequests :
       call' = Call("PutLight", hue, id, state, net, PutLight(hue, id, state, net))
  /\ UNCHANGED LibVars

(***************************************************************************)
(* main of the command line tool. It names the operations RegisterUser,    *)
(* FetchUserInfo, FetchLights and ChangeLight and the request              *)
(* LightRequestBody: the library's PostUser, GetUser, GetLights, PutLight  *)
(* and PutLightRequest.                                                    *)
(***************************************************************************)
philipsHue ==
  [IpAddress |-> flags.ip, UserName |-> "HueGoRaspberryPiUser",
   DeviceType |-> "HueGoRaspberryPi"]

\* log.Fatalf: print and exit.
Fatal(m) == pc' = "fatal" /\ msg' = m

Failed(out) == out.returned /\ out.err.kind # "nil"

\* if err := philipsHue.ChangeLight(lightName, state); err != nil, with the
\* error dropped.
ChangeFailedNever(out) == FALSE

\* if err := philipsHue.ChangeLight(lightName, state); err != nil
ChangeFailed(out) == Failed(out)

\* The test of the registration error without its hueErr.Type == 101.
RegisterMessageAnyHueError(err) ==
  IF err.kind = "HueError"
  THEN "Please press the link button on the router and then try again."
  ELSE "Unable to register user: "

\* What main prints for a registration that failed with err.
RegisterMessage(err) ==
  IF err.kind = "HueError" /\ err.Type = 101
  THEN "Please press the link button on the router and then try again."
  ELSE "Unable to register user: "

\* What main did, for the trace.
Did(op, id, out) ==
  [op |-> op, id |-> id, sent |-> out.sent,
   ok |-> out.returned /\ out.err.kind = "nil"]

\* What the model keeps of one of main's calls.
Kept(c) == IF c.out.returned /\ c.out.err.kind = "nil" THEN NoCall ELSE c

Registered(net, out) ==
  /\ call' = Kept(Call("PostUser", philipsHue, "", NoRequest, net, out))
  /\ trace' = Append(trace, Did("PostUser", "", out))
  /\ IF Failed(out)
     THEN Fatal(RegisterMessage(out.err))
     ELSE pc' = "dump" /\ UNCHANGED msg

MainRegister ==
  /\ pc = "register"
  /\ UNCHANGED <<flags, lights, idx>>
  /\ IF ~flags.register
     THEN pc' = "dump" /\ UNCHANGED <<call, msg, trace>>
     ELSE \E net \in MainNets : Registered(net, PostUser(philipsHue, net))

Dumped(net, out) ==
  /\ call' = Kept(Call("GetUser", philipsHue, "", NoRequest, net, out))
  /\ trace' = Append(trace, Did("GetUser", "", out))
  /\ IF Failed(out)
     THEN Fatal("Unable to fetch user info: ")
     ELSE pc' = "lights" /\ UNCHANGED msg

MainDumpUserInfo ==
  /\ pc = "dump"
  /\ UNCHANGED <<flags, lights, idx>>
  /\ IF ~flags.dumpUserInfo
     THEN pc' = "lights" /\ UNCHANGED <<call, msg, trace>>
     ELSE \E net \in MainNets : Dumped(net, GetUser(philipsHue, net))

\* The orders in which a range over a map can visit its keys: any.
RangeOrders(m) ==
  {o \in [1..Cardinality(DOMAIN m) -> DOMAIN m] :
     \A i, j \in DOMAIN o : i # j => o[i] # o[j]}

Listed(net, out) ==
  /\ call' = Kept(Call("GetLights", philipsHue, "", NoRequest, net, out))
  /\ trace' = Append(trace, Did("GetLights", "", out))
  /\ IF Failed(out)
     THEN Fatal("Unable to fetch lights: ") /\ UNCHANGED lights
     ELSE /\ lights' \in RangeOrders(out.target.val)
          /\ pc' = "change"
          /\ UNCHANGED msg

MainLights ==
  /\ pc = "lights"
  /\ UNCHANGED <<flags, idx>>
  /\ IF flags.light # ""
     THEN /\ lights' = <<flags.light>>
          /\ pc' = "change"
          /\ UNCHANGED <<call, msg, trace>>
     ELSE \E net \in MainNets : Listed(net, GetLights(philipsHue, net))

\* state := &LightRequestBody{} and the assignments that follow it.
MainState ==
  [type |-> "PutLightRequest",
   On |-> PSet(flags.on),
   Hue |-> IF flags.hue >= 0 THEN PSet(flags.hue) ELSE PNil,
   Sat |-> IF flags.sat >= 0 THEN PSet(flags.sat) ELSE PNil,
   Bri |-> IF flags.bri >= 0 THEN PSet(flags.bri) ELSE PNil]

Changed(net, out) ==
  /\ call' = Kept(Call("PutLight", philipsHue, lights[idx], MainState, net, out))
  /\ trace' = Append(trace, Did("PutLight", lights[idx], out))
  /\ IF ~out.returned
     THEN pc' = "panic" /\ UNCHANGED <<msg, idx>>
     ELSE IF ChangeFailed(out)
     THEN Fatal("Unable to change light ") /\ UNCHANGED idx
     ELSE pc' = "change" /\ idx' = idx + 1 /\ UNCHANGED msg

\* One turn of the loop over lights, or its end.
MainChange ==
  /\ pc = "change"
  /\ UNCHANGED <<flags, lights>>
  /\ IF idx > Len(lights)
     THEN pc' = "done" /\ UNCHANGED <<call, msg, trace, idx>>
     ELSE \E net \in MainNets :
            Changed(net, PutLight(philipsHue, lights[idx], MainState, net))

Next ==
  \/ CallGetUser
  \/ CallPostUser
  \/ CallGetLights
  \/ CallGetLight
  \/ CallPutLight
  \/ MainRegister
  \/ MainDumpUserInfo
  \/ MainLights
  \/ MainChange

Spec == Init /\ [][Next]_vars


(***************************************************************************)
(* What the properties below say about a call, read off the call's inputs  *)
(* and off the response's JSON itself, not off what the client decoded.    *)
(***************************************************************************)
Called == call.op # "none"

\* The type the operation's response target has.
TargetType(op) ==
  CASE op = "GetUser" -> GetUserResponseT
    [] op = "PostUser" -> postUserResponseT
    [] op = "GetLights" -> GetLightsResponseT
    [] op = "GetLight" -> GetLightResponseT
    [] op = "PutLight" -> putLightResponseT

\* The transport handed a response over: the URL is one and the send worked.
Answered ==
  /\ Called
  /\ call.net.sendOk
  /\ call.hue.IpAddress # BadHost
  /\ call.hue.UserName # BadEscape
  /\ call.id # BadEscape

\* A response with status 200 whose body could be read.
Answered200 == Answered /\ call.net.resp.StatusCode = 200 /\ call.net.resp.readOk

Body == call.net.resp.body

HasKey(v, key) == v.k = "obj" /\ key \in DOMAIN v.o

\* {"error":{"type":<number>,...}} with strings for what else an error holds.
IsErrorObject(e) ==
  /\ HasKey(e, "error")
  /\ HasKey(e.o.error, "type")
  /\ e.o.error.o.type.k = "num"
  /\ \A key \in {"address", "description"} :
       HasKey(e.o.error, key) => e.o.error.o[key].k = "str"

\* {"success":{...}}: an acknowledgement.
IsAckObject(e) ==
  /\ HasKey(e, "success")
  /\ ~HasKey(e, "error")
  /\ e.o.success.k = "obj"

\* The error type an entry carries: 0 when it carries none.
RawType(e) == IF IsErrorObject(e) THEN e.o.error.o.type.n ELSE 0
RawAddress(e) ==
  IF IsErrorObject(e) /\ HasKey(e.o.error, "address") THEN e.o.error.o.address.s ELSE ""
RawDescription(e) ==
  IF IsErrorObject(e) /\ HasKey(e.o.error, "description")
  THEN e.o.error.o.description.s ELSE ""

IsArray(v) == v.k = "arr"

\* A non-empty array of error objects whose first type is not zero.
IsErrorEnvelope(v) ==
  /\ IsArray(v)
  /\ Len(v.a) > 0
  /\ \A i \in DOMAIN v.a : IsErrorObject(v.a[i])
  /\ RawType(v.a[1]) # 0

\* A non-empty array of error objects and acknowledgements whose first entry
\* is an error with a type that is not zero: what the client takes for an
\* error.
IsConfirmedError(v) ==
  /\ IsArray(v)
  /\ Len(v.a) > 0
  /\ \A i \in DOMAIN v.a : IsErrorObject(v.a[i]) \/ IsAckObject(v.a[i])
  /\ RawType(v.a[1]) # 0

IsApiError(err) == err.kind \in {"HueError", "HueAggregateError"}

(***************************************************************************)
(* C1. A status 200 response whose body is a non-empty array of error      *)
(* objects, the first with a type that is not zero, yields an API error    *)
(* (HueError or HueAggregateError), the success parse is not attempted and *)
(* the caller's target is not written; and no call at all both attempts    *)
(* the success parse and returns an API error.                             *)
(***************************************************************************)
C1_ErrorEnvelopeNeverParsedAsSuccess ==
  Called =>
    /\ (Answered200 /\ IsErrorEnvelope(Body)) =>
         /\ call.out.returned
         /\ IsApiError(call.out.err)
         /\ ~call.out.okParse
         /\ ~call.out.target.written
    /\ ~(call.out.okParse /\ IsApiError(call.out.err))
    /\ IsApiError(call.out.err) => ~call.out.target.written

\* GetLights answered with two errors: an aggregate, and the target untouched.
C1_Witness ==
  /\ pc = "called"
  /\ call.op = "GetLights"
  /\ Answered200
  /\ IsErrorEnvelope(Body)
  /\ Len(Body.a) = 2
  /\ call.out.err.kind = "HueAggregateError"
  /\ ~call.out.okParse

\* The pieces of the message of entry e, and the newline after it.
ExpectedLine(e) ==
  <<"Hue Error ", ToString(RawType(e)), ": ", RawAddress(e), " ", RawDescription(e), "\n">>

\* message is the entries' lines, in the entries' order.
IsConcatenation(message, entries) ==
  /\ Len(message) = 7 * Len(entries)
  /\ \A i \in DOMAIN entries : \A j \in 1..7 :
       message[7 * (i - 1) + j] = ExpectedLine(entries[i])[j]

(***************************************************************************)
(* C2. A confirmed error with exactly one entry is returned as a HueError  *)
(* carrying that entry's type, address and description; with more than one *)
(* entry as a HueAggregateError holding every entry in the body's order,   *)
(* whose message is each entry's message followed by a newline, in that    *)
(* order.                                                                  *)
(***************************************************************************)
C2_ErrorKindByEntryCount ==
  (Answered200 /\ IsConfirmedError(Body)) =>
    IF Len(Body.a) = 1
    THEN /\ call.out.err.kind = "HueError"
         /\ call.out.err.Type = RawType(Body.a[1])
         /\ call.out.err.Address = RawAddress(Body.a[1])
         /\ call.out.err.Description = RawDescription(Body.a[1])
    ELSE /\ call.out.err.kind = "HueAggregateError"
         /\ Len(call.out.err.errs) = Len(Body.a)
         /\ \A i \in DOMAIN Body.a :
              /\ call.out.err.errs[i].Error.Type = RawType(Body.a[i])
              /\ call.out.err.errs[i].Error.Address = RawAddress(Body.a[i])
              /\ call.out.err.errs[i].Error.Description = RawDescription(Body.a[i])
         /\ IsConcatenation(HueAggregateErrorError(call.out.err.errs), Body.a)
         /\ call.out.log[1] =
              <<"Request failed: ">> \o HueAggregateErrorError(call.out.err.errs)

\* An aggregate of two different errors, 7 then 101.
C2_Witness ==
  /\ Answered200
  /\ IsConfirmedError(Body)
  /\ Len(Body.a) = 2
  /\ RawType(Body.a[1]) = 7
  /\ RawType(Body.a[2]) = 101
  /\ call.out.err.kind = "HueAggregateError"

(***************************************************************************)
(* C3. A status 200 response whose body is not a confirmed error goes to   *)
(* the operation's success parse: the call returns nil when that parse     *)
(* succeeds, a JSON error when it fails, and never an API error.           *)
(***************************************************************************)
C3_NotAnErrorGoesToSuccessParse ==
  (Answered200 /\ ~IsConfirmedError(Body)) =>
    /\ call.out.returned
    /\ call.out.okParse
    /\ ~IsApiError(call.out.err)
    /\ call.out.err.kind =
         IF Unmarshal(Body, TargetType(call.op)).err = "nil" THEN "nil" ELSE "jsonError"

\* PutLight answered with two acknowledgements: success.
C3_Witness ==
  /\ pc = "called"
  /\ call.op = "PutLight"
  /\ Answered200
  /\ IsArray(Body)
  /\ Len(Body.a) = 2
  /\ \A i \in DOMAIN Body.a : IsAckObject(Body.a[i])
  /\ call.out.okParse
  /\ call.out.err.kind = "nil"

(***************************************************************************)
(* C4. A response whose status is not 200 fails the call at once: the body *)
(* is neither read nor parsed, the target is not written, and the error is *)
(* the status error, neither an API error nor a JSON error, whatever the   *)
(* body holds.                                                             *)
(***************************************************************************)
C4_StatusNot200FailsUnparsed ==
  (Answered /\ call.net.resp.StatusCode # 200) =>
    /\ call.out.returned
    /\ call.out.err.kind = "errorString"
    /\ call.out.err = StatusErr(call.net.resp.StatusCode)
    /\ ~call.out.bodyRead
    /\ ~call.out.errParse
    /\ ~call.out.okParse
    /\ ~call.out.target.written

\* GetLight answered 404 with a body that is a valid error envelope.
C4_Witness ==
  /\ pc = "called"
  /\ call.op = "GetLight"
  /\ Answered
  /\ call.net.resp.StatusCode = 404
  /\ IsErrorEnvelope(Body)
  /\ call.out.err.kind = "errorString"


\* main's loop over the lights.
InMain == pc \notin {"lib", "called"}
Batch == InMain /\ flags.light = ""
Ended == pc \in {"done", "fatal", "panic"}
PutLights == SelectSeq(trace, LAMBDA d : d.op = "PutLight")

\* C5 as claimed: in a batch the update is attempted on every light of the
\* listing, whatever fails; when main has ended, every light was attempted.
C5_EveryLightAttempted ==
  (Batch /\ Ended /\ Len(lights) > 0) => Len(PutLights) = Len(lights)

\* C5 as amended: main updates the lights one at a time in the order of its
\* lights slice and ends at the first update that fails (log.Fatalf, or the
\* panic of put): only the last operation main called can have failed, a
\* light is attempted only after every light before it was updated, and all
\* the lights are attempted only when none but the last fails.
C5_BatchStopsAtFirstFailure ==
  InMain =>
    /\ Len(PutLights) <= Len(lights)
    /\ \A i \in DOMAIN PutLights : PutLights[i].id = lights[i]
    /\ \A i \in DOMAIN trace : i < Len(trace) => trace[i].ok
    /\ (trace # << >> /\ ~trace[Len(trace)].ok) => pc \in {"fatal", "panic"}
    /\ pc = "change" => Len(PutLights) = idx - 1
    /\ pc = "done" => Len(PutLights) = Len(lights)
    /\ (pc \in {"fatal", "panic"} /\ PutLights # << >>) =>
         /\ Len(PutLights) = idx
         /\ ~PutLights[idx].ok

\* A batch of at least two lights that ended when the first update failed.
C5_Witness ==
  /\ Batch
  /\ pc = "fatal"
  /\ Len(lights) >= 2
  /\ Len(PutLights) = 1
  /\ ~PutLights[1].ok

SetKeys(state) ==
  {key \in {"on", "hue", "sat", "bri"} :
     CASE key = "on" -> state.On.set
       [] key = "hue" -> state.Hue.set
       [] key = "sat" -> state.Sat.set
       [] key = "bri" -> state.Bri.set}

BodyMatches(state, body) ==
  /\ body.k = "obj"
  /\ DOMAIN body.o = SetKeys(state)
  /\ state.On.set => body.o.on = JBool(state.On.v)
  /\ state.Hue.set => body.o.hue = JNum(state.Hue.v)
  /\ state.Sat.set => body.o.sat = JNum(state.Sat.v)
  /\ state.Bri.set => body.o.bri = JNum(state.Bri.v)

FlagKeys ==
  {"on"} \cup {key \in {"hue", "sat", "bri"} :
                 CASE key = "hue" -> flags.hue >= 0
                   [] key = "sat" -> flags.sat >= 0
                   [] key = "bri" -> flags.bri >= 0}

(***************************************************************************)
(* C6. The body PutLight sends has a key exactly for each field of the     *)
(* request that is set, with the value it is set to (false and 0           *)
(* included), and no key for a field that is not. main's request always    *)
(* has on, and has hue, sat and bri exactly when the flag is >= 0.         *)
(***************************************************************************)
C6_BodyHasExactlyTheSetFields ==
  /\ (Called /\ call.op = "PutLight" /\ call.hue.IpAddress # BadHost
        /\ call.id # BadEscape) =>
       /\ Len(call.out.sent) = 1
       /\ call.out.sent[1].method = "PUT"
       /\ BodyMatches(call.state, call.out.sent[1].body)
  /\ InMain =>
       \A i \in DOMAIN PutLights :
         flags.ip # BadHost =>
           /\ Len(PutLights[i].sent) = 1
           /\ DOMAIN PutLights[i].sent[1].body.o = FlagKeys
           /\ PutLights[i].sent[1].body.o.on = JBool(flags.on)
           /\ flags.hue >= 0 => PutLights[i].sent[1].body.o.hue = JNum(flags.hue)
           /\ flags.sat >= 0 => PutLights[i].sent[1].body.o.sat = JNum(flags.sat)
           /\ flags.bri >= 0 => PutLights[i].sent[1].body.o.bri = JNum(flags.bri)

\* on set to false and hue set to 0, sat and bri absent: the body has on and
\* hue only.
C6_Witness ==
  /\ pc = "called"
  /\ call.op = "PutLight"
  /\ call.state.On = PSet(FALSE)
  /\ call.state.Hue = PSet(0)
  /\ ~call.state.Sat.set
  /\ ~call.state.Bri.set
  /\ Len(call.out.sent) = 1
  /\ DOMAIN call.out.sent[1].body.o = {"on", "hue"}

\* Some stage of the call failed.
StageFailed ==
  ~(/\ Answered200
    /\ ~IsConfirmedError(Body)
    /\ Unmarshal(Body, TargetType(call.op)).err = "nil")

(***************************************************************************)
(* C7. Every failure at any stage of a call (building the request, sending *)
(* it, a status that is not 200, reading the body, a confirmed error, the  *)
(* success parse) ends the call there with an error returned.              *)
(***************************************************************************)
C7_EveryFailureReturnsAnError ==
  (Called /\ StageFailed) => (call.out.returned /\ call.out.err.kind # "nil")

(***************************************************************************)
(* C8. The body of every response the transport handed over is closed      *)
(* exactly once when the call returns, whatever the outcome; a call that   *)
(* got no response closes nothing.                                         *)
(***************************************************************************)
C8_BodyClosedExactlyOnce ==
  Called => call.out.closes = (IF Answered THEN 1 ELSE 0)

\* A body that could not be read is closed all the same.
C8_Witness ==
  /\ Answered
  /\ call.net.resp.StatusCode = 200
  /\ ~call.net.resp.readOk
  /\ call.out.err.kind = "readError"
  /\ call.out.closes = 1

AnsweredLinkButton ==
  /\ Answered200
  /\ IsArray(Body)
  /\ Len(Body.a) = 1
  /\ IsErrorObject(Body.a[1])
  /\ RawType(Body.a[1]) = 101

(***************************************************************************)
(* C9. A registration that fails ends main at once, before it fetches the  *)
(* user info, lists the lights or changes a light. When the hub answered   *)
(* the POST with the one error 101, PostUser returned a HueError of type   *)
(* 101 and main printed the link button message; for every other failure   *)
(* main printed "Unable to register user".                                 *)
(***************************************************************************)
C9_LinkButtonMessage ==
  (InMain /\ Called /\ call.op = "PostUser") =>
    /\ pc = "fatal"
    /\ Len(trace) = 1
    /\ trace[1].op = "PostUser"
    /\ lights = << >>
    /\ IF AnsweredLinkButton
       THEN /\ call.out.err.kind = "HueError"
            /\ call.out.err.Type = 101
            /\ msg = "Please press the link button on the router and then try again."
       ELSE msg = "Unable to register user: "

C9_Witness ==
  /\ pc = "fatal"
  /\ flags.register
  /\ call.op = "PostUser"
  /\ AnsweredLinkButton
  /\ msg = "Please press the link button on the router and then try again."

(***************************************************************************)
(* C10. Only the first entry of the array decides. For a PutLight response *)
(* of acknowledgements and errors the call returns an error exactly when   *)
(* the first entry is an error with a type that is not zero; a later error *)
(* behind an acknowledgement is returned as success, and acknowledgements  *)
(* behind a first error are entries of type 0 of the aggregate.            *)
(***************************************************************************)
C10_FirstEntryDecides ==
  (/\ Called
   /\ call.op = "PutLight"
   /\ Answered200
   /\ IsArray(Body)
   /\ \A i \in DOMAIN Body.a : IsErrorObject(Body.a[i]) \/ IsAckObject(Body.a[i])) =>
    /\ call.out.returned
    /\ call.out.err.kind # "nil" <=> (Len(Body.a) > 0 /\ RawType(Body.a[1]) # 0)
    /\ (Len(Body.a) > 1 /\ RawType(Body.a[1]) # 0) =>
         /\ call.out.err.kind = "HueAggregateError"
         /\ \A i \in DOMAIN Body.a :
              IsAckObject(Body.a[i]) => call.out.err.errs[i].Error.Type = 0

\* An acknowledgement, then an error: PutLight returns nil.
C10_Witness ==
  /\ pc = "called"
  /\ call.op = "PutLight"
  /\ Answered200
  /\ IsArray(Body)
  /\ Len(Body.a) = 2
  /\ IsAckObject(Body.a[1])
  /\ IsErrorObject(Body.a[2])
  /\ RawType(Body.a[2]) # 0
  /\ call.out.err.kind = "nil"

=============================================================================
